---- MODULE Spec2Model ----
(***************************************************************************)
(* A model of the notebook 01_Framework.ipynb: the price download          *)
(* (get_symbols), the features cell, the outcomes cell, the two alignment  *)
(* cells (X.join(y).dropna()), the model fits and the prediction cell.     *)
(*                                                                         *)
(* A DataFrame is a record [columns, rows]; a row is [date, symbol, v]     *)
(* with v a function from column names to values.  A Series is             *)
(* [name, rows] with rows [date, symbol, val].  A value is a float:        *)
(* NaN, +/-inf or an exact rational n/d in lowest terms.                   *)
(***************************************************************************)
EXTENDS Integers, Sequences, FiniteSets, TLC

(***************************************************************************)
(* Bounds of the model.                                                    *)
(***************************************************************************)
\* trading dates are 2015-01-01 .. 2015-01-MaxDate
MaxDate == 7
\* longest list of symbols passed to get_symbols in the function-level check
MaxSymbols == 2
\* number of (date, symbol) keys of the hand-built tables given to the join
MaxAlignKeys == 3

(***************************************************************************)
(* Program constants.                                                      *)
(***************************************************************************)
\* volume.diff(1) and shift(1)
VolumeLag == 1
\* close.pct_change(5)
MomentumLag == 5
\* open.shift(-1), close.pct_change(-1)
Horizon1 == 1
\* close.pct_change(-5)
Horizon5 == 5
\* begin_date='2015-01-01' is a Thursday: pandas weekday 3
BeginWeekday == 3

Symbols == {"AAPL", "CSCO"}
Dates == 1..MaxDate
Kernels == {1, 2}

\* the order of the symbol strings, as sort_index compares them
SymOrd(s) == IF s = "AAPL" THEN 1 ELSE 2

(***************************************************************************)
(* Floats.                                                                 *)
(***************************************************************************)
NaN == [k |-> "nan", n |-> 0, d |-> 1]
Inf(sign) == [k |-> "inf", n |-> sign, d |-> 0]

Abs(i) == IF i < 0 THEN -i ELSE i
Sign(i) == IF i < 0 THEN -1 ELSE IF i = 0 THEN 0 ELSE 1

RECURSIVE Gcd(_, _)
Gcd(a, b) == IF b = 0 THEN a ELSE Gcd(b, a % b)

\* the rational n/d (d # 0) in lowest terms with a positive denominator
Num(n, d) ==
  LET g == Gcd(Abs(n), Abs(d))
      s == Sign(d)
  IN [k |-> "num", n |-> (s * n) \div g, d |-> (s * d) \div g]

Whole(i) == Num(i, 1)

isnull(a) == a.k = "nan"

\* a - b on floats: NaN propagates, inf - inf of one sign is NaN
FSub(a, b) ==
  IF isnull(a) \/ isnull(b) THEN NaN
  ELSE IF a.k = "inf" /\ b.k = "inf"
       THEN (IF a.n = b.n THEN NaN ELSE a)
  ELSE IF a.k = "inf" THEN a
  ELSE IF b.k = "inf" THEN Inf(-b.n)
  ELSE Num(a.n * b.d - b.n * a.d, a.d * b.d)

\* a / b on floats: x/0 is +/-inf, 0/0 is NaN, no error is raised
FDiv(a, b) ==
  IF isnull(a) \/ isnull(b) THEN NaN
  ELSE IF a.k = "inf" /\ b.k = "inf" THEN NaN
  ELSE IF a.k = "inf" THEN Inf(IF b.n < 0 THEN -a.n ELSE a.n)
  ELSE IF b.k = "inf" THEN Whole(0)
  ELSE IF b.n = 0 THEN (IF a.n = 0 THEN NaN ELSE Inf(Sign(a.n)))
  ELSE Num(a.n * b.d, a.d * b.n)

(***************************************************************************)
(* Frames and series.                                                      *)
(***************************************************************************)
EmptyFrame == [columns |-> << >>, rows |-> << >>]
EmptySeries == [name |-> "", rows |-> << >>]

Range(f) == {f[i] : i \in DOMAIN f}

\* a function on 1..n as the sequence of its values
Rows(f) == f \o << >>
Key(r) == <<r.date, r.symbol>>
Index(t) == Rows([i \in DOMAIN t.rows |-> Key(t.rows[i])])

\* lexicographic order of the (date, symbol) keys
KeyLess(a, b) ==
  \/ a.date < b.date
  \/ a.date = b.date /\ SymOrd(a.symbol) < SymOrd(b.symbol)

\* frame.<column>: the column as a series
Col(t, c) ==
  [name |-> c,
   rows |-> Rows([i \in DOMAIN t.rows |->
               [date |-> t.rows[i].date, symbol |-> t.rows[i].symbol,
                val |-> t.rows[i].v[c]]])]

\* frame[columns]: the frame restricted to the listed columns
Select(t, cols) ==
  [columns |-> cols,
   rows |-> Rows([i \in DOMAIN t.rows |->
               [date |-> t.rows[i].date, symbol |-> t.rows[i].symbol,
                v |-> [c \in Range(cols) |-> t.rows[i].v[c]]]])]

RowHasNull(r) == \E c \in DOMAIN r.v : isnull(r.v[c])

\* (mutant: dropna(how='all'), only the rows that are entirely missing go)
dropna_all(t) ==
  [columns |-> t.columns,
   rows |-> SelectSeq(t.rows,
                      LAMBDA r : \E c \in DOMAIN r.v : ~isnull(r.v[c]))]

\* frame.dropna(): the rows with no missing value, in their order
dropna(t) ==
  [columns |-> t.columns,
   rows |-> SelectSeq(t.rows, LAMBDA r : ~RowHasNull(r))]

\* the rows of t that have a missing value
NullRows(t) == {i \in DOMAIN t.rows : RowHasNull(t.rows[i])}

\* frame[name] = series: the frame with the series added as a column; the
\* series has the frame's index, so the values are taken row by row
SetCol(t, s) ==
  [columns |-> Append(t.columns, s.name),
   rows |-> Rows([i \in DOMAIN t.rows |->
               [date |-> t.rows[i].date, symbol |-> t.rows[i].symbol,
                v |-> [c \in DOMAIN t.rows[i].v \cup {s.name} |->
                         IF c = s.name THEN s.rows[i].val
                         ELSE t.rows[i].v[c]]]])]

\* pd.DataFrame(index=frame.index): the index without any column
IndexOnly(t) ==
  [columns |-> << >>,
   rows |-> Rows([i \in DOMAIN t.rows |->
               [date |-> t.rows[i].date, symbol |-> t.rows[i].symbol,
                v |-> << >>]])]

\* element-wise arithmetic of two series that have the same index
SeriesDiv(a, b) ==
  [name |-> a.name,
   rows |-> Rows([i \in DOMAIN a.rows |->
               [a.rows[i] EXCEPT !.val = FDiv(a.rows[i].val, b.rows[i].val)]])]

SeriesSub(a, b) ==
  [name |-> a.name,
   rows |-> Rows([i \in DOMAIN a.rows |->
               [a.rows[i] EXCEPT !.val = FSub(a.rows[i].val, b.rows[i].val)]])]

SeriesMinus(a, x) ==
  [name |-> a.name,
   rows |-> Rows([i \in DOMAIN a.rows |->
               [a.rows[i] EXCEPT !.val = FSub(a.rows[i].val, x)]])]

Rename(s, name) == [s EXCEPT !.name = name]

(***************************************************************************)
(* groupby(level='symbol'): every operation works inside the rows of one   *)
(* symbol, in their order in the frame.                                    *)
(***************************************************************************)
\* the position of every row among the rows of its symbol
GroupRank(rows) ==
  Rows([i \in DOMAIN rows |->
     Cardinality({j \in 1..i : rows[j].symbol = rows[i].symbol})])

\* (mutant: the shift without the groupby, over the rows of every symbol)
GroupPeerAnySymbol(rows, rank, i, periods) ==
  {j \in DOMAIN rows : j = i - periods}

\* the row of i's symbol that is `periods` rows before i (after, if negative)
GroupPeer(rows, rank, i, periods) ==
  {j \in DOMAIN rows :
     rows[j].symbol = rows[i].symbol /\ rank[j] = rank[i] - periods}

\* groupby(level='symbol').<column>.shift(periods)
GroupShift(s, periods) ==
  LET rank == GroupRank(s.rows)
  IN [name |-> s.name,
      rows |-> Rows([i \in DOMAIN s.rows |->
                  LET peer == GroupPeer(s.rows, rank, i, periods)
                  IN [s.rows[i] EXCEPT !.val =
                        IF peer = {} THEN NaN
                        ELSE s.rows[CHOOSE j \in peer : TRUE].val]])]

\* groupby(level='symbol').<column>.diff(periods)
GroupDiff(s, periods) == SeriesSub(s, GroupShift(s, periods))

\* groupby(level='symbol').<column>.ffill(): the last valid value of the
\* symbol at or before the row (pct_change's default fill_method='pad')
GroupPad(s) ==
  [name |-> s.name,
   rows |-> Rows([i \in DOMAIN s.rows |->
               LET valid == {j \in 1..i :
                               /\ s.rows[j].symbol = s.rows[i].symbol
                               /\ ~isnull(s.rows[j].val)}
               IN [s.rows[i] EXCEPT !.val =
                     IF valid = {} THEN NaN
                     ELSE s.rows[CHOOSE j \in valid :
                                   \A m \in valid : m <= j].val]])]

\* groupby(level='symbol').<column>.pct_change(periods)
GroupPctChange(s, periods) ==
  LET filled == GroupPad(s)
  IN SeriesMinus(SeriesDiv(filled, GroupShift(filled, periods)), Whole(1))

(***************************************************************************)
(* The market-data service behind web.DataReader.  A market is described   *)
(* by the last trading date of each symbol and by at most two cells that   *)
(* depart from the regular quotes (a missing session, a missing or zero    *)
(* value, another value).                                                  *)
(***************************************************************************)
NoAnomaly == [symbol |-> "", date |-> 0, kind |-> "none"]

Kinds == {"absent", "open_nan", "close_nan", "volume_nan", "volume_zero",
          "open_alt", "close_alt", "volume_alt"}

Anomalies == [symbol : Symbols, date : Dates, kind : Kinds]

Hits(a, s, d, kinds) == a.symbol = s /\ a.date = d /\ a.kind \in kinds

\* the regular quotes of symbol s on date d
RegularOpen(s, d) == 7 * SymOrd(s) + (SymOrd(s) + 1) * d
RegularClose(s, d) == RegularOpen(s, d) + ((d * d + SymOrd(s)) % 3)
RegularVolume(s, d) == 1 + ((d * d + SymOrd(s)) % 5)

Cell(m, s, d, regular, nan, zero, alt) ==
  LET a == IF Hits(m.a2, s, d, {nan, zero, alt}) THEN m.a2
           ELSE IF Hits(m.a1, s, d, {nan, zero, alt}) THEN m.a1
           ELSE NoAnomaly
  IN IF a.kind = "none" THEN Whole(regular)
     ELSE IF a.kind = nan THEN NaN
     ELSE IF a.kind = zero THEN Whole(0)
     ELSE Whole(regular + 3)

\* one row of the service's answer: the date and the adjusted columns
Quote(m, s, d) ==
  [Date |-> d,
   v |-> [c \in {"AdjOpen", "AdjHigh", "AdjLow", "AdjClose", "AdjVolume"} |->
            CASE c = "AdjOpen" ->
                   Cell(m, s, d, RegularOpen(s, d), "open_nan", "open_zero",
                        "open_alt")
              [] c = "AdjHigh" -> Whole(RegularClose(s, d) + 4)
              [] c = "AdjLow" -> Whole(RegularOpen(s, d) - 1)
              [] c = "AdjClose" ->
                   Cell(m, s, d, RegularClose(s, d), "close_nan", "close_zero",
                        "close_alt")
              [] OTHER ->
                   Cell(m, s, d, RegularVolume(s, d), "volume_nan",
                        "volume_zero", "volume_alt")]]

Traded(m, s, d) ==
  /\ d <= m.last[s]
  /\ ~Hits(m.a1, s, d, {"absent"})
  /\ ~Hits(m.a2, s, d, {"absent"})

RECURSIVE QuotesFrom(_, _, _)
QuotesFrom(m, s, d) ==
  IF d > MaxDate THEN << >>
  ELSE IF Traded(m, s, d) THEN <<Quote(m, s, d)>> \o QuotesFrom(m, s, d + 1)
  ELSE QuotesFrom(m, s, d + 1)

\* web.DataReader(symbol, data_source, begin_date, end_date): the rows of
\* the symbol, indexed by Date
DataReader(m, symbol) == QuotesFrom(m, symbol, 1)

(***************************************************************************)
(* get_symbols                                                             *)
(***************************************************************************)
\* [[AdjOpen..AdjVolume]].reset_index(), df.columns = [...], df['symbol'] =
\* symbol, set_index(['date','symbol']): the rows of one symbol
SymbolFrame(m, symbol) ==
  LET df == DataReader(m, symbol)
  IN Rows([i \in DOMAIN df |->
        [date |-> df[i].Date, symbol |-> symbol,
         v |-> [open |-> df[i].v["AdjOpen"], high |-> df[i].v["AdjHigh"],
                low |-> df[i].v["AdjLow"], close |-> df[i].v["AdjClose"],
                volume |-> df[i].v["AdjVolume"]]]])

\* the place of row r in a sorted sequence: after every row not greater
RECURSIVE Insert(_, _)
Insert(sorted, r) ==
  IF sorted = << >> THEN <<r>>
  ELSE IF KeyLess(r, Head(sorted)) THEN <<r>> \o sorted
  ELSE <<Head(sorted)>> \o Insert(Tail(sorted), r)

RECURSIVE SortRows(_)
SortRows(rows) ==
  IF rows = << >> THEN << >>
  ELSE Insert(SortRows(SubSeq(rows, 1, Len(rows) - 1)), rows[Len(rows)])

\* frame.sort_index(): the rows in ascending (date, symbol) order
sort_index(t) == [columns |-> t.columns, rows |-> SortRows(t.rows)]

PriceColumns == <<"open", "high", "low", "close", "volume">>

\* the for loop: out = pd.concat([out, df], axis=0) for each symbol in turn
RECURSIVE Stack(_, _)
Stack(m, symbols) ==
  IF symbols = << >> THEN << >>
  ELSE Stack(m, SubSeq(symbols, 1, Len(symbols) - 1))
         \o SymbolFrame(m, symbols[Len(symbols)])

get_symbols(symbols, m) ==
  LET out == [columns |-> IF symbols = << >> THEN << >> ELSE PriceColumns,
              rows |-> Stack(m, symbols)]
  IN sort_index(out)

(***************************************************************************)
(* The features cell and the outcomes cell.                                *)
(***************************************************************************)
\* 2015-01-d: Timestamp.weekday (Monday is 0) and Timestamp.day
Weekday(d) == (d - 1 + BeginWeekday) % 7
DayOfMonth(d) == d

\* features.index.get_level_values('date').weekday
day_of_week(t) ==
  [name |-> "day_of_week",
   rows |-> Rows([i \in DOMAIN t.rows |->
               [date |-> t.rows[i].date, symbol |-> t.rows[i].symbol,
                val |-> Whole(Weekday(t.rows[i].date))]])]

\* features.index.get_level_values('date').day
day_of_month(t) ==
  [name |-> "day_of_month",
   rows |-> Rows([i \in DOMAIN t.rows |->
               [date |-> t.rows[i].date, symbol |-> t.rows[i].symbol,
                val |-> Whole(DayOfMonth(t.rows[i].date))]])]

\* (mutant: the change to the next session instead of from the previous one)
volume_change_ratio_ahead(p) ==
  Rename(SeriesDiv(GroupDiff(Col(p, "volume"), -VolumeLag),
                   GroupShift(Col(p, "volume"), -VolumeLag)),
         "volume_change_ratio")

volume_change_ratio(p) ==
  Rename(SeriesDiv(GroupDiff(Col(p, "volume"), VolumeLag),
                   GroupShift(Col(p, "volume"), VolumeLag)),
         "volume_change_ratio")

\* (mutant: the momentum over one session, close.pct_change(1))
momentum_1_day(p) ==
  Rename(GroupPctChange(Col(p, "close"), VolumeLag), "momentum_5_day")

momentum_5_day(p) ==
  Rename(GroupPctChange(Col(p, "close"), MomentumLag), "momentum_5_day")

intraday_chg(p) ==
  Rename(SeriesDiv(SeriesSub(GroupShift(Col(p, "close"), 0),
                             GroupShift(Col(p, "open"), 0)),
                   GroupShift(Col(p, "open"), 0)),
         "intraday_chg")

\* the features cell up to the last assignment, before dropna
FeatureColumns(p) ==
  LET f0 == IndexOnly(p)
      f1 == SetCol(f0, volume_change_ratio(p))
      f2 == SetCol(f1, momentum_5_day(p))
      f3 == SetCol(f2, intraday_chg(p))
      f4 == SetCol(f3, day_of_week(f3))
  IN SetCol(f4, day_of_month(f4))

\* the features cell: the five columns, then features.dropna(inplace=True)
Features(p) == dropna(FeatureColumns(p))

open_1(p) ==
  Rename(SeriesMinus(SeriesDiv(GroupShift(Col(p, "open"), -Horizon1),
                               GroupShift(Col(p, "close"), 0)),
                     Whole(1)),
         "open_1")

\* (mutant: the sign of the period lost, the change from the previous close)
close_1_backward(p) ==
  Rename(GroupPctChange(Col(p, "close"), Horizon1), "close_1")

close_1(p) == Rename(GroupPctChange(Col(p, "close"), -Horizon1), "close_1")

\* (mutant: the one-session horizon copied into close_5)
close_5_horizon_1(p) ==
  Rename(GroupPctChange(Col(p, "close"), -Horizon1), "close_5")

close_5(p) == Rename(GroupPctChange(Col(p, "close"), -Horizon5), "close_5")

\* (mutant: the outcomes cell ends with a dropna)
OutcomesDropna(p) ==
  dropna(SetCol(SetCol(SetCol(IndexOnly(p), open_1(p)), close_1(p)),
                close_5(p)))

\* the outcomes cell: three columns on the index of prices, no dropna
Outcomes(p) ==
  SetCol(SetCol(SetCol(IndexOnly(p), open_1(p)), close_1(p)), close_5(p))

(***************************************************************************)
(* The alignment step of the two training cells.                           *)
(***************************************************************************)
\* the rows of series y that carry the key of row r
Matches(r, y) == SelectSeq(y.rows, LAMBDA q : Key(q) = Key(r))

JoinedRow(r, name, val) ==
  [date |-> r.date, symbol |-> r.symbol,
   v |-> [c \in DOMAIN r.v \cup {name} |-> IF c = name THEN val ELSE r.v[c]]]

\* X.join(y), a left join on the index: every row of X in its order, once
\* per row of y with its key, and once with NaN when y has no such row
RECURSIVE JoinRows(_, _)
JoinRows(xrows, y) ==
  IF xrows = << >> THEN << >>
  ELSE LET r == Head(xrows)
           m == Matches(r, y)
       IN (IF m = << >> THEN <<JoinedRow(r, y.name, NaN)>>
           ELSE Rows([i \in DOMAIN m |-> JoinedRow(r, y.name, m[i].val)]))
          \o JoinRows(Tail(xrows), y)

join(x, y) ==
  [columns |-> Append(x.columns, y.name), rows |-> JoinRows(x.rows, y)]

\* y = outcomes.<col>; X = features; Xy = X.join(y).dropna();
\* y = Xy[y.name]; X = Xy[X.columns]
\* (mutant: the join without the dropna)
AlignXyKeepsNulls(feat, out, col) == join(feat, Col(out, col))

AlignXy(feat, out, col) == dropna(join(feat, Col(out, col)))
AlignY(feat, out, col) == Col(AlignXy(feat, out, col), col)
\* (mutant: X stays bound to features, the last line is forgotten)
AlignXStaysFeatures(feat, out, col) == feat

AlignX(feat, out, col) == Select(AlignXy(feat, out, col), feat.columns)

\* (mutant: the rows without a partner are dropped from features in place)
AlignFeaturesNarrowed(feat, out, col) ==
  Select(AlignXy(feat, out, col), feat.columns)

\* the object bound to features after the five lines: X = features binds X
\* to the object itself, X.join(y) and .dropna() return new objects and the
\* last two lines rebind y and X, so no line writes to it
AlignFeatures(feat, out, col) == feat

\* the object bound to outcomes after the five lines: outcomes.<col> is only
\* read by the join
AlignOutcomes(feat, out, col) == out

(***************************************************************************)
(* The regression models (scikit-learn).                                   *)
(***************************************************************************)
IsFinite(a) == a.k = "num"

\* fit and predict refuse an empty array and one that holds NaN or inf
Usable(x) ==
  /\ x.rows # << >>
  /\ \A i \in DOMAIN x.rows : \A c \in DOMAIN x.rows[i].v :
       IsFinite(x.rows[i].v[c])

UsableTarget(s) ==
  /\ s.rows # << >>
  /\ \A i \in DOMAIN s.rows : IsFinite(s.rows[i].val)

Unfitted(estimator) ==
  [estimator |-> estimator, fitted |-> FALSE, X |-> EmptyFrame,
   y |-> EmptySeries]

\* model = <estimator>(); model.fit(X, y)
Fit(estimator, x, t) ==
  IF Usable(x) /\ UsableTarget(t)
  THEN [estimator |-> estimator, fitted |-> TRUE, X |-> x, y |-> t]
  ELSE Unfitted(estimator)

\* model.predict(X): one value per row, a function of the fitted model and
\* of that row's feature values alone
Predicted(m, v) == [estimator |-> m.estimator, x |-> v]

\* (mutant: the predictions keyed to the following date)
PredictSeriesNextDay(m, x) ==
  [name |-> "",
   rows |-> Rows([i \in DOMAIN x.rows |->
               [date |-> x.rows[i].date + 1, symbol |-> x.rows[i].symbol,
                val |-> Predicted(m, x.rows[i].v)]])]

\* pd.Series(model.predict(X), index=X.index)
PredictSeries(m, x) ==
  [name |-> "",
   rows |-> Rows([i \in DOMAIN x.rows |->
               [date |-> x.rows[i].date, symbol |-> x.rows[i].symbol,
                val |-> Predicted(m, x.rows[i].v)]])]

TailLength == 10

\* series.tail(10)
tail(s, n) ==
  [name |-> s.name,
   rows |-> IF Len(s.rows) <= n THEN s.rows
            ELSE SubSeq(s.rows, Len(s.rows) - n + 1, Len(s.rows))]

(***************************************************************************)
(* The state: the globals of each kernel that runs the notebook.           *)
(***************************************************************************)
VARIABLES
  market,     \* market[k]: what the data service answers to kernel k
  requested,  \* requested[k]: the symbols argument of the last get_symbols
  prices, features, outcomes,   \* the three frames
  X, y, Xy,   \* the globals the alignment rebinds
  model,      \* the estimator bound to `model`
  pred,       \* the series built by the prediction cell
  shown,      \* the value the prediction cell displays, pred.tail(10)
  bound,      \* bound[k]: the names that are bound in kernel k
  err,        \* err[k]: the exception of the kernel's last cell, or "none"
  pc,         \* pc[k]: the selected cell of kernel k, the next one to run
  selected    \* selected[k]: how many times the user has selected a cell
              \* instead of running the one that follows the last run

vars == <<market, requested, prices, features, outcomes, X, y, Xy, model,
          pred, shown, bound, err, pc, selected>>

NotebookSymbols == <<"AAPL", "CSCO">>

\* the markets of the single run: any last date per symbol, at most one
\* irregular cell
LastDates == [Symbols -> Dates]
Markets ==
  [last : LastDates, a1 : Anomalies \cup {NoAnomaly}, a2 : {NoAnomaly}]

IdleMarket == [last |-> [s \in Symbols |-> 1], a1 |-> NoAnomaly,
               a2 |-> NoAnomaly]

Fresh ==
  /\ requested = [k \in Kernels |-> << >>]
  /\ prices = [k \in Kernels |-> EmptyFrame]
  /\ features = [k \in Kernels |-> EmptyFrame]
  /\ outcomes = [k \in Kernels |-> EmptyFrame]
  /\ X = [k \in Kernels |-> EmptyFrame]
  /\ y = [k \in Kernels |-> EmptySeries]
  /\ Xy = [k \in Kernels |-> EmptyFrame]
  /\ model = [k \in Kernels |-> Unfitted("")]
  /\ pred = [k \in Kernels |-> EmptySeries]
  /\ shown = [k \in Kernels |-> EmptySeries]
  /\ bound = [k \in Kernels |-> {}]
  /\ err = [k \in Kernels |-> "none"]
  /\ selected = [k \in Kernels |-> 0]

Init ==
  /\ \E m \in Markets : market = [k \in Kernels |-> IF k = 1 THEN m ELSE IdleMarket]
  /\ Fresh
  /\ pc = [k \in Kernels |-> IF k = 1 THEN "get_prices" ELSE "idle"]

(***************************************************************************)
(* The cells, in document order.                                           *)
(***************************************************************************)
\* cell 1: def get_symbols; prices = get_symbols(['AAPL','CSCO'], ...)
PricesCell(k) ==
  /\ pc[k] = "get_prices"
  /\ requested' = [requested EXCEPT ![k] = NotebookSymbols]
  /\ prices' = [prices EXCEPT ![k] = get_symbols(NotebookSymbols, market[k])]
  /\ bound' = [bound EXCEPT ![k] = @ \cup {"get_symbols", "prices"}]
  /\ err' = [err EXCEPT ![k] = "none"]
  /\ pc' = [pc EXCEPT ![k] = "features"]
  /\ UNCHANGED <<selected, market, features, outcomes, X, y, Xy, model, pred, shown>>

\* cell 2: features = ...; features.dropna(inplace=True)
FeaturesCell(k) ==
  /\ pc[k] = "features"
  /\ features' = [features EXCEPT ![k] = Features(prices[k])]
  /\ bound' = [bound EXCEPT ![k] = @ \cup {"features"}]
  /\ err' = [err EXCEPT ![k] = "none"]
  /\ pc' = [pc EXCEPT ![k] = "outcomes"]
  /\ UNCHANGED <<selected, market, requested, prices, outcomes, X, y, Xy, model, pred,
                 shown>>

\* cell 3: outcomes = ...
OutcomesCell(k) ==
  /\ pc[k] = "outcomes"
  /\ outcomes' = [outcomes EXCEPT ![k] = Outcomes(prices[k])]
  /\ bound' = [bound EXCEPT ![k] = @ \cup {"outcomes"}]
  /\ err' = [err EXCEPT ![k] = "none"]
  /\ pc' = [pc EXCEPT ![k] = "align"]
  /\ UNCHANGED <<selected, market, requested, prices, features, X, y, Xy, model, pred,
                 shown>>

\* the five alignment lines, with the outcome column `col`
Align(k, col) ==
  /\ Xy' = [Xy EXCEPT ![k] = AlignXy(features[k], outcomes[k], col)]
  /\ y' = [y EXCEPT ![k] = AlignY(features[k], outcomes[k], col)]
  /\ X' = [X EXCEPT ![k] = AlignX(features[k], outcomes[k], col)]
  /\ features' = [features EXCEPT
                    ![k] = AlignFeatures(features[k], outcomes[k], col)]
  /\ outcomes' = [outcomes EXCEPT
                    ![k] = AlignOutcomes(features[k], outcomes[k], col)]

\* cell 4: the alignment on close_1
AlignCell(k) ==
  /\ pc[k] = "align"
  /\ Align(k, "close_1")
  /\ bound' = [bound EXCEPT ![k] = @ \cup {"X", "y", "Xy"}]
  /\ err' = [err EXCEPT ![k] = "none"]
  /\ pc' = [pc EXCEPT ![k] = "fit"]
  /\ UNCHANGED <<selected, market, requested, prices, model, pred, shown>>

FitError(x, t) == IF Usable(x) /\ UsableTarget(t) THEN "none" ELSE "ValueError"

\* cell 5: model = LinearRegression(); model.fit(X, y); model.score(X, y)
LinearCell(k) ==
  /\ pc[k] = "fit"
  /\ model' = [model EXCEPT ![k] = Fit("LinearRegression", X[k], y[k])]
  /\ bound' = [bound EXCEPT ![k] = @ \cup {"model"}]
  /\ err' = [err EXCEPT ![k] = FitError(X[k], y[k])]
  /\ pc' = [pc EXCEPT ![k] = "forest"]
  /\ UNCHANGED <<selected, market, requested, prices, features, outcomes, X, y, Xy,
                 pred, shown>>

\* (mutant: cell 6 without its model lines, the alignment on open_1 alone)
ForestCellAlignOnly(k) ==
  /\ pc[k] = "forest"
  /\ Align(k, "open_1")
  /\ bound' = [bound EXCEPT ![k] = @ \cup {"X", "y", "Xy"}]
  /\ err' = [err EXCEPT ![k] = "none"]
  /\ pc' = [pc EXCEPT ![k] = "predict"]
  /\ UNCHANGED <<selected, market, requested, prices, model, pred, shown>>

\* cell 6: the alignment on open_1, then model = RandomForestRegressor(...);
\* model.fit(X, y); model.score(X, y)
ForestCell(k) ==
  /\ pc[k] = "forest"
  /\ Align(k, "open_1")
  /\ model' = [model EXCEPT ![k] = Fit("RandomForestRegressor", X'[k], y'[k])]
  /\ bound' = [bound EXCEPT ![k] = @ \cup {"X", "y", "Xy", "model"}]
  /\ err' = [err EXCEPT ![k] = FitError(X'[k], y'[k])]
  /\ pc' = [pc EXCEPT ![k] = "predict"]
  /\ UNCHANGED <<selected, market, requested, prices, pred, shown>>

PredictError(m, x) ==
  IF ~m.fitted THEN "NotFittedError"
  ELSE IF ~Usable(x) THEN "ValueError"
  ELSE "none"

\* cell 7: pd.Series(model.predict(X), index=X.index).tail(10)
PredictCell(k) ==
  /\ pc[k] = "predict"
  /\ IF PredictError(model[k], X[k]) = "none"
     THEN /\ pred' = [pred EXCEPT ![k] = PredictSeries(model[k], X[k])]
          /\ shown' = [shown EXCEPT ![k] = tail(pred'[k], TailLength)]
     ELSE UNCHANGED <<pred, shown>>
  /\ err' = [err EXCEPT ![k] = PredictError(model[k], X[k])]
  /\ pc' = [pc EXCEPT ![k] = "done"]
  /\ UNCHANGED <<selected, market, requested, prices, features, outcomes, X, y, Xy,
                 model, bound>>

Cells(k) ==
  \/ PricesCell(k)
  \/ FeaturesCell(k)
  \/ OutcomesCell(k)
  \/ AlignCell(k)
  \/ LinearCell(k)
  \/ ForestCell(k)
  \/ PredictCell(k)

\* one kernel runs the notebook once, top to bottom
Next == Cells(1)

Spec == Init /\ [][Next]_vars

(***************************************************************************)
(* Two kernels run the notebook against two answers of the data service    *)
(* that differ in one cell.  Both symbols are quoted up to MaxDate; the    *)
(* second kernel starts when the first has aligned on close_1 or has       *)
(* finished, and the first stands still from then on.                      *)
(***************************************************************************)
TwinMarkets ==
  [last : {[s \in Symbols |-> MaxDate]}, a1 : Anomalies \cup {NoAnomaly},
   a2 : {NoAnomaly}]

TwinInit ==
  /\ \E m \in TwinMarkets :
       market = [k \in Kernels |-> IF k = 1 THEN m ELSE IdleMarket]
  /\ Fresh
  /\ pc = [k \in Kernels |-> IF k = 1 THEN "get_prices" ELSE "idle"]

\* the first kernel, while the second has not started
FirstKernel == pc[2] = "idle" /\ Cells(1)

\* cell 1 in the second kernel: the service answers as it did to the first
\* kernel but for one more irregular cell
TwinPricesCell ==
  /\ pc[1] \in {"fit", "done"}
  /\ pc[2] = "idle"
  /\ \E a \in Anomalies :
       /\ market' = [market EXCEPT ![2] = [market[1] EXCEPT !.a2 = a]]
       /\ prices' = [prices EXCEPT
                       ![2] = get_symbols(NotebookSymbols, market'[2])]
  /\ requested' = [requested EXCEPT ![2] = NotebookSymbols]
  /\ bound' = [bound EXCEPT ![2] = @ \cup {"get_symbols", "prices"}]
  /\ err' = [err EXCEPT ![2] = "none"]
  /\ pc' = [pc EXCEPT ![2] = "features"]
  /\ UNCHANGED <<selected, features, outcomes, X, y, Xy, model, pred, shown>>

TwinNext ==
  \/ FirstKernel
  \/ TwinPricesCell
  \/ FeaturesCell(2)
  \/ OutcomesCell(2)

SpecTwin == TwinInit /\ [][TwinNext]_vars

(***************************************************************************)
(* The alignment applied to any pair of tables: the kernel holds a         *)
(* features table and an outcomes table over the first MaxAlignKeys keys,  *)
(* each key absent, complete or with a missing value, and runs the cells   *)
(* from the first alignment on.                                            *)
(***************************************************************************)
AlignKey(i) ==
  [date |-> (i + 1) \div 2, symbol |-> IF i % 2 = 1 THEN "AAPL" ELSE "CSCO"]

FeatureNames ==
  <<"volume_change_ratio", "momentum_5_day", "intraday_chg", "day_of_week",
    "day_of_month">>

OutcomeNames == <<"open_1", "close_1", "close_5">>

\* the feature row of key i: complete, or with momentum_5_day missing
FeatureRow(i, kind) ==
  [date |-> AlignKey(i).date, symbol |-> AlignKey(i).symbol,
   v |-> [c \in Range(FeatureNames) |->
            IF c = "momentum_5_day" /\ kind = "nan" THEN NaN
            ELSE IF c = "day_of_week" THEN Whole(Weekday(AlignKey(i).date))
            ELSE IF c = "day_of_month" THEN Whole(DayOfMonth(AlignKey(i).date))
            ELSE Num(i, 7)]]

\* the outcome row of key i: complete, or with open_1 or close_1 missing
OutcomeRow(i, kind) ==
  [date |-> AlignKey(i).date, symbol |-> AlignKey(i).symbol,
   v |-> [c \in Range(OutcomeNames) |->
            IF c = "close_5" \/ (c = "open_1" /\ kind = "open_nan")
               \/ (c = "close_1" /\ kind = "close_nan")
            THEN NaN
            ELSE Num(i, 11)]]

\* the keys 1..MaxAlignKeys that a choice keeps, in order
Present(sel) ==
  SelectSeq([i \in 1..MaxAlignKeys |-> i], LAMBDA i : sel[i] # "absent")

FeatureTables ==
  {[columns |-> FeatureNames,
    rows |-> Rows([j \in DOMAIN Present(sel) |->
                     FeatureRow(Present(sel)[j], sel[Present(sel)[j]])])] :
     sel \in [1..MaxAlignKeys -> {"absent", "full", "nan"}]}

OutcomeTables ==
  {[columns |-> OutcomeNames,
    rows |-> Rows([j \in DOMAIN Present(sel) |->
                     OutcomeRow(Present(sel)[j], sel[Present(sel)[j]])])] :
     sel \in [1..MaxAlignKeys -> {"absent", "full", "open_nan", "close_nan"}]}

AlignInit ==
  /\ market = [k \in Kernels |-> IdleMarket]
  /\ requested = [k \in Kernels |-> << >>]
  /\ prices = [k \in Kernels |-> EmptyFrame]
  /\ \E f \in FeatureTables :
       features = [k \in Kernels |-> IF k = 1 THEN f ELSE EmptyFrame]
  /\ \E o \in OutcomeTables :
       outcomes = [k \in Kernels |-> IF k = 1 THEN o ELSE EmptyFrame]
  /\ X = [k \in Kernels |-> EmptyFrame]
  /\ y = [k \in Kernels |-> EmptySeries]
  /\ Xy = [k \in Kernels |-> EmptyFrame]
  /\ model = [k \in Kernels |-> Unfitted("")]
  /\ pred = [k \in Kernels |-> EmptySeries]
  /\ shown = [k \in Kernels |-> EmptySeries]
  /\ bound = [k \in Kernels |->
                IF k = 1 THEN {"features", "outcomes"} ELSE {}]
  /\ err = [k \in Kernels |-> "none"]
  /\ selected = [k \in Kernels |-> 0]
  /\ pc = [k \in Kernels |-> IF k = 1 THEN "align" ELSE "idle"]

AlignNext ==
  \/ AlignCell(1)
  \/ LinearCell(1)
  \/ ForestCell(1)
  \/ PredictCell(1)

SpecAlign == AlignInit /\ [][AlignNext]_vars

(***************************************************************************)
(* get_symbols called with any list of at most MaxSymbols symbols.         *)
(***************************************************************************)
SymbolLists ==
  UNION {[1..n -> Symbols] : n \in 0..MaxSymbols}

GetInit ==
  /\ \E m \in Markets :
       market = [k \in Kernels |-> IF k = 1 THEN m ELSE IdleMarket]
  /\ Fresh
  /\ pc = [k \in Kernels |-> IF k = 1 THEN "call" ELSE "idle"]

\* prices = get_symbols(symbols, data_source, begin_date, end_date)
CallGetSymbols ==
  /\ pc[1] = "call"
  /\ \E symbols \in SymbolLists :
       /\ requested' = [requested EXCEPT ![1] = symbols]
       /\ prices' = [prices EXCEPT ![1] = get_symbols(symbols, market[1])]
  /\ bound' = [bound EXCEPT ![1] = @ \cup {"get_symbols", "prices"}]
  /\ err' = [err EXCEPT ![1] = "none"]
  /\ pc' = [pc EXCEPT ![1] = "returned"]
  /\ UNCHANGED <<selected, market, features, outcomes, X, y, Xy, model, pred, shown>>

GetNext == CallGetSymbols

SpecGet == GetInit /\ [][GetNext]_vars

(***************************************************************************)
(* The features cell on answers of the data service that hold zeros: up to *)
(* two irregular cells of one symbol, the first a zero or a missing value, *)
(* the second a zero on the same or a later date.                          *)
(***************************************************************************)
ZeroKinds == {"volume_zero", "open_zero", "close_zero"}

ZeroMarkets ==
  {m \in [last : LastDates,
          a1 : [symbol : Symbols, date : Dates,
                kind : ZeroKinds \cup {"volume_nan", "close_nan"}]
                 \cup {NoAnomaly},
          a2 : [symbol : Symbols, date : Dates, kind : ZeroKinds]
                 \cup {NoAnomaly}] :
     m.a2 # NoAnomaly =>
       /\ m.a1 # NoAnomaly
       /\ m.a2.symbol = m.a1.symbol
       /\ m.a2.date >= m.a1.date
       /\ m.a2 # m.a1}

FeaturesInit ==
  /\ \E m \in ZeroMarkets :
       market = [k \in Kernels |-> IF k = 1 THEN m ELSE IdleMarket]
  /\ Fresh
  /\ pc = [k \in Kernels |-> IF k = 1 THEN "get_prices" ELSE "idle"]

FeaturesNext ==
  \/ PricesCell(1)
  \/ FeaturesCell(1)

SpecFeatures == FeaturesInit /\ [][FeaturesNext]_vars

(***************************************************************************)
(* The cells run in any order.  Running a cell selects the one below it;   *)
(* the user may instead select any cell, at most MaxSelect times.  A cell  *)
(* that reads a name no cell has bound yet stops with a NameError.  The    *)
(* data service may change its answer once, in one cell of the last two    *)
(* dates.                                                                  *)
(***************************************************************************)
MaxSelect == 2

CellNames ==
  <<"get_prices", "features", "outcomes", "align", "fit", "forest", "predict">>

\* the cell below cell c
Following(c) ==
  CASE c = "get_prices" -> "features"
    [] c = "features" -> "outcomes"
    [] c = "outcomes" -> "align"
    [] c = "align" -> "fit"
    [] c = "fit" -> "forest"
    [] c = "forest" -> "predict"
    [] OTHER -> "done"

\* the globals cell c reads, in the order it reads them
Reads(c) ==
  CASE c = "features" -> <<"prices">>
    [] c = "outcomes" -> <<"prices">>
    [] c = "align" -> <<"outcomes", "features">>
    [] c = "fit" -> <<"X", "y">>
    [] c = "forest" -> <<"outcomes", "features">>
    [] c = "predict" -> <<"model", "X">>
    [] OTHER -> << >>

Ready(k) == Range(Reads(pc[k])) \subseteq bound[k]

\* the user selects a cell
SelectCell(k) ==
  /\ selected[k] < MaxSelect
  /\ \E c \in Range(CellNames) :
       /\ c # pc[k]
       /\ pc' = [pc EXCEPT ![k] = c]
  /\ selected' = [selected EXCEPT ![k] = @ + 1]
  /\ UNCHANGED <<market, requested, prices, features, outcomes, X, y, Xy,
                 model, pred, shown, bound, err>>

\* the selected cell stops at the first name that is not bound; an
\* alignment that finds outcomes but not features has rebound y by then
NameErrorCell(k) ==
  /\ pc[k] \in Range(CellNames)
  /\ ~Ready(k)
  /\ IF pc[k] \in {"align", "forest"} /\ "outcomes" \in bound[k]
     THEN /\ y' = [y EXCEPT ![k] =
                     Col(outcomes[k],
                         IF pc[k] = "align" THEN "close_1" ELSE "open_1")]
          /\ bound' = [bound EXCEPT ![k] = @ \cup {"y"}]
     ELSE UNCHANGED <<y, bound>>
  /\ err' = [err EXCEPT ![k] = "NameError"]
  /\ pc' = [pc EXCEPT ![k] = Following(pc[k])]
  /\ UNCHANGED <<selected, market, requested, prices, features, outcomes, X,
                 Xy, model, pred, shown>>

OrderAnomalies ==
  [symbol : Symbols, date : {MaxDate - 1, MaxDate},
   kind : {"open_nan", "close_alt"}]

OrderMarkets ==
  [last : {[s \in Symbols |-> MaxDate]},
   a1 : OrderAnomalies \cup {NoAnomaly}, a2 : {NoAnomaly}]

\* the data service revises one cell of its answer
ServiceChanges ==
  /\ market[1].a2 = NoAnomaly
  /\ \E a \in OrderAnomalies \ {market[1].a1} :
       market' = [market EXCEPT ![1] = [@ EXCEPT !.a2 = a]]
  /\ UNCHANGED <<requested, prices, features, outcomes, X, y, Xy, model,
                 pred, shown, bound, err, pc, selected>>

AnyOrderInit ==
  /\ \E m \in OrderMarkets :
       market = [k \in Kernels |-> IF k = 1 THEN m ELSE IdleMarket]
  /\ Fresh
  /\ pc = [k \in Kernels |-> IF k = 1 THEN "get_prices" ELSE "idle"]

AnyOrderNext ==
  \/ SelectCell(1)
  \/ ServiceChanges
  \/ Ready(1) /\ PricesCell(1)
  \/ Ready(1) /\ FeaturesCell(1)
  \/ Ready(1) /\ OutcomesCell(1)
  \/ Ready(1) /\ AlignCell(1)
  \/ Ready(1) /\ LinearCell(1)
  \/ Ready(1) /\ ForestCell(1)
  \/ Ready(1) /\ PredictCell(1)
  \/ NameErrorCell(1)

SpecAnyOrder == AnyOrderInit /\ [][AnyOrderNext]_vars

(***************************************************************************)
(* Notions the properties below are stated with.                           *)
(***************************************************************************)
\* the outcome column the kernel's X and y were last aligned on
AlignedCol(k) ==
  IF pc[k] \in {"fit", "forest"} THEN "close_1"
  ELSE IF pc[k] \in {"predict", "done"} THEN "open_1"
  ELSE "none"

Aligned(k) == AlignedCol(k) # "none"

Keys(rows) == {Key(rows[i]) : i \in DOMAIN rows}

\* the rows of a frame or series that carry key q
At(rows, q) == SelectSeq(rows, LAMBDA r : Key(r) = q)

\* an inner join of a frame and a series on the key, keeping the left order
InnerJoin(x, s) ==
  LET both == SelectSeq(x.rows, LAMBDA r : Key(r) \in Keys(s.rows))
  IN [columns |-> Append(x.columns, s.name),
      rows |-> [i \in DOMAIN both |->
                  JoinedRow(both[i], s.name,
                            (CHOOSE q \in Range(s.rows) :
                               Key(q) = Key(both[i])).val)]]

\* the keys the claim describes: in both tables, every feature value and the
\* chosen outcome value present
CompleteKeys(feat, out, col) ==
  {q \in Keys(feat.rows) \cap Keys(out.rows) :
     /\ \A r \in Range(At(feat.rows, q)) : ~RowHasNull(r)
     /\ \A r \in Range(At(out.rows, q)) : ~isnull(r.v[col])}

\* C3: the alignment gives exactly the inner join of features and the chosen
\* outcome column on (date, symbol) followed by dropping the rows with a
\* missing value: a key is in X and y if and only if it is in both tables
\* with all feature values and the outcome value present
C3_AlignIsInnerJoinDropna ==
  Aligned(1) =>
    LET col == AlignedCol(1)
        ref == dropna(InnerJoin(features[1], Col(outcomes[1], col)))
    IN /\ Xy[1].columns = ref.columns
       /\ Xy[1].rows = ref.rows
       /\ Keys(X[1].rows) = CompleteKeys(features[1], outcomes[1], col)
       /\ Keys(y[1].rows) = CompleteKeys(features[1], outcomes[1], col)

\* C3 witness: after an alignment, a key of features alone, a key with a
\* missing feature, a key with the outcome missing were left out and a key
\* was kept
C3_Witness ==
  /\ Aligned(1)
  /\ X[1].rows # << >>
  /\ Keys(features[1].rows) \ Keys(outcomes[1].rows) # {}
  /\ NullRows(features[1]) # {}
  /\ \E i \in DOMAIN outcomes[1].rows :
       /\ isnull(outcomes[1].rows[i].v[AlignedCol(1)])
       /\ Key(outcomes[1].rows[i]) \in Keys(features[1].rows)

\* C4: after the alignment X and y have the same number of rows and the same
\* (date, symbol) keys in the same order, X has exactly the columns of
\* features and their values, y is the chosen outcome column, and neither
\* holds a missing value
C4_XyIdenticallyIndexed ==
  Aligned(1) =>
    /\ Len(X[1].rows) = Len(y[1].rows)
    /\ Index(X[1]) = Index(y[1])
    /\ X[1].columns = features[1].columns
    /\ y[1].name = AlignedCol(1)
    /\ \A i \in DOMAIN X[1].rows :
         /\ DOMAIN X[1].rows[i].v = Range(features[1].columns)
         /\ ~RowHasNull(X[1].rows[i])
         /\ X[1].rows[i] \in Range(At(features[1].rows, Key(X[1].rows[i])))
    /\ \A i \in DOMAIN y[1].rows :
         /\ ~isnull(y[1].rows[i].val)
         /\ \E r \in Range(At(outcomes[1].rows, Key(y[1].rows[i]))) :
              r.v[AlignedCol(1)] = y[1].rows[i].val

\* C4 witness: an alignment that kept several rows and left some out
C4_Witness ==
  /\ Aligned(1)
  /\ Len(X[1].rows) >= 2
  /\ Len(X[1].rows) < Len(features[1].rows)
  /\ Len(y[1].rows) < Len(outcomes[1].rows)

\* C5: the prediction series has one value per row of X under X's index, and
\* the value keyed (d, s) is computed from the feature row of (d, s)
C5_PredictionsKeepIndex ==
  (pc[1] = "done" /\ err[1] = "none") =>
    /\ Len(pred[1].rows) = Len(X[1].rows)
    /\ Index(pred[1]) = Index(X[1])
    /\ \A i \in DOMAIN pred[1].rows :
         /\ pred[1].rows[i].val.estimator = model[1].estimator
         /\ \E r \in Range(At(features[1].rows, Key(pred[1].rows[i]))) :
              r.v = pred[1].rows[i].val.x
    /\ shown[1] = tail(pred[1], TailLength)

\* C5 witness: predictions were made for rows of both symbols, on a date
\* that is followed by another trading date
C5_Witness ==
  /\ pc[1] = "done"
  /\ err[1] = "none"
  /\ \A s \in Symbols : \E i \in DOMAIN pred[1].rows :
       /\ pred[1].rows[i].symbol = s
       /\ \E j \in DOMAIN prices[1].rows :
            /\ prices[1].rows[j].symbol = s
            /\ prices[1].rows[j].date > pred[1].rows[i].date

\* the rows of symbol s
RowsOf(rows, s) == SelectSeq(rows, LAMBDA r : r.symbol = s)

\* no price of symbol s is missing
NoMissingPrice(p, s) ==
  \A r \in Range(RowsOf(p.rows, s)) :
    \A c \in {"open", "high", "low", "close"} : ~isnull(r.v[c])

Incomplete(k, col) ==
  LET columns == FeatureColumns(prices[k])
  IN {Key(columns.rows[i]) : i \in NullRows(columns)}
       \cup {Key(outcomes[k].rows[i]) :
               i \in {j \in DOMAIN outcomes[k].rows :
                        isnull(outcomes[k].rows[j].v[col])}}

\* C7: the feature, outcome and alignment cells end without an exception,
\* and every key that lacks a feature value or the chosen outcome value is
\* absent from X and y
C7_MissingValuesOmitted ==
  /\ pc[1] \in {"features", "outcomes", "align", "fit"} => err[1] = "none"
  /\ Aligned(1) =>
       LET incomplete == Incomplete(1, AlignedCol(1))
       IN /\ Keys(X[1].rows) \cap incomplete = {}
          /\ Keys(y[1].rows) \cap incomplete = {}
          /\ Keys(X[1].rows) \cup incomplete = Keys(prices[1].rows)

\* C7 witness: a symbol with fewer rows than the five-session lookback and
\* an alignment that left X and y empty without an exception
C7_Witness ==
  /\ pc[1] = "fit"
  /\ err[1] = "none"
  /\ prices[1].rows # << >>
  /\ \E s \in Symbols :
       Len(RowsOf(prices[1].rows, s)) \in 1..(MomentumLag - 1)
  /\ X[1].rows = << >>
  /\ y[1].rows = << >>

\* C8: trained on open_1, every key with complete features and an open_1
\* value is kept, whatever close_1 and close_5 hold on that row
C8_OtherOutcomeNullsKeepRow ==
  AlignedCol(1) = "open_1" =>
    LET next_open == open_1(prices[1])
    IN \A q \in Keys(features[1].rows) :
         (\E r \in Range(At(next_open.rows, q)) : ~isnull(r.val))
           => (q \in Keys(X[1].rows) /\ q \in Keys(y[1].rows))

\* C8 witness: a row kept for open_1 whose close_5 is missing
C8_Witness ==
  /\ AlignedCol(1) = "open_1"
  /\ \E q \in Keys(X[1].rows) :
       \E r \in Range(At(outcomes[1].rows, q)) : isnull(r.v["close_5"])

(***************************************************************************)
(* Properties of two runs on two price histories (SpecTwin).               *)
(***************************************************************************)
UpTo(rows, d) == SelectSeq(rows, LAMBDA r : r.date <= d)
Before(rows, d) == SelectSeq(rows, LAMBDA r : r.date < d)
From(rows, d) == SelectSeq(rows, LAMBDA r : r.date >= d)
After(rows, d) == SelectSeq(rows, LAMBDA r : r.date > d)
OnDate(rows, d) == SelectSeq(rows, LAMBDA r : r.date = d)

BothHave(name) == name \in bound[1] /\ name \in bound[2]

\* C1: when two price histories agree on all rows dated d or earlier, the
\* features rows dated d are the same in both, the rows dropped included
C1_FeaturesUseNoLaterData ==
  BothHave("features") =>
    \A d \in Dates :
      UpTo(prices[1].rows, d) = UpTo(prices[2].rows, d)
        => OnDate(features[1].rows, d) = OnDate(features[2].rows, d)

\* C1 witness: two histories that agree up to a date and differ after it,
\* with features rows on that date
C1_Witness ==
  /\ BothHave("features")
  /\ \E d \in Dates :
       /\ UpTo(prices[1].rows, d) = UpTo(prices[2].rows, d)
       /\ After(prices[1].rows, d) # After(prices[2].rows, d)
       /\ OnDate(features[1].rows, d) # << >>

\* the keys that the alignment of kernel k on column col retains
Retained(k, col) == Keys(AlignXy(features[k], outcomes[k], col).rows)

\* C2 as stated: for a row (d, s) retained after the join, two histories that
\* agree on all rows dated after d give the same outcome value, whatever the
\* prices on d or earlier are
C2_OutcomeUsesOnlyLaterData ==
  (Aligned(1) /\ pc[2] = "align") =>
    \A q \in Keys(X[1].rows) \cap Retained(2, AlignedCol(1)) :
      After(prices[1].rows, q[1]) = After(prices[2].rows, q[1])
        => \A r1 \in Range(At(outcomes[1].rows, q)) :
             \A r2 \in Range(At(outcomes[2].rows, q)) :
               r1.v[AlignedCol(1)] = r2.v[AlignedCol(1)]

\* C2 amended: for a row (d, s) retained after the join, two histories that
\* agree on all rows dated d or later give the same open_1, close_1 and
\* close_5 at (d, s), whatever the prices before d are
C2_OutcomeUsesRowAndLaterData ==
  (Aligned(1) /\ BothHave("outcomes")) =>
    \A q \in Keys(X[1].rows) :
      From(prices[1].rows, q[1]) = From(prices[2].rows, q[1])
        => At(outcomes[1].rows, q) = At(outcomes[2].rows, q)

\* C2 witness: a retained row (d, s) of two histories that agree from d on
\* and differ before d
C2_Witness ==
  /\ Aligned(1)
  /\ BothHave("outcomes")
  /\ \E q \in Keys(X[1].rows) :
       /\ From(prices[1].rows, q[1]) = From(prices[2].rows, q[1])
       /\ Before(prices[1].rows, q[1]) # Before(prices[2].rows, q[1])
       /\ At(outcomes[2].rows, q) # << >>

\* C10: when two price tables agree on all rows of a symbol, the features
\* rows and the outcomes rows of that symbol are the same in both
C10_ComputedPerSymbol ==
  (BothHave("features") /\ BothHave("outcomes")) =>
    \A s \in Symbols :
      RowsOf(prices[1].rows, s) = RowsOf(prices[2].rows, s)
        => /\ RowsOf(features[1].rows, s) = RowsOf(features[2].rows, s)
           /\ RowsOf(outcomes[1].rows, s) = RowsOf(outcomes[2].rows, s)

\* C10 witness: two tables with the same rows of one symbol, interleaved
\* with different rows of the other symbol, one of its sessions missing
C10_Witness ==
  /\ BothHave("features")
  /\ BothHave("outcomes")
  /\ \E s \in Symbols :
       /\ RowsOf(prices[1].rows, s) = RowsOf(prices[2].rows, s)
       /\ RowsOf(features[1].rows, s) # << >>
       /\ \E t \in Symbols \ {s} :
            Len(RowsOf(prices[1].rows, t)) # Len(RowsOf(prices[2].rows, t))

(***************************************************************************)
(* Properties of get_symbols (SpecGet).                                    *)
(***************************************************************************)
\* C9 as stated: after get_symbols returns, for every list of requested
\* symbols, no two rows of prices share a (date, symbol) key, the rows are
\* in ascending key order and every row fetched for a requested symbol is
\* present
C9_KeysIdentifyRows ==
  pc[1] = "returned" =>
    /\ \A i, j \in DOMAIN prices[1].rows :
         Key(prices[1].rows[i]) = Key(prices[1].rows[j]) => i = j
    /\ \A i, j \in DOMAIN prices[1].rows :
         i < j => ~KeyLess(prices[1].rows[j], prices[1].rows[i])
    /\ \A n \in DOMAIN requested[1] :
         Range(SymbolFrame(market[1], requested[1][n]))
           \subseteq Range(prices[1].rows)

(***************************************************************************)
(* The values of the outcomes (Spec).                                      *)
(***************************************************************************)
\* the change from base to later: later / base - 1
ChangeFrom(base, later) == FSub(FDiv(later, base), Whole(1))

\* C11 as stated: for every key (d, s) with a next session d' of s,
\* close_1 = close(d') / close(d) - 1 and open_1 = open(d') / close(d) - 1,
\* and with a fifth following session d5, close_5 = close(d5) / close(d) - 1:
\* the row's own close is the base of all three changes
C11_OutcomesAreForwardChanges ==
  "outcomes" \in bound[1] =>
    \A s \in Symbols :
      LET p == RowsOf(prices[1].rows, s)
          o == RowsOf(outcomes[1].rows, s)
      IN \A i \in DOMAIN p :
           /\ i + Horizon1 <= Len(p) =>
                /\ o[i].v["close_1"] =
                     ChangeFrom(p[i].v["close"], p[i + Horizon1].v["close"])
                /\ o[i].v["open_1"] =
                     ChangeFrom(p[i].v["close"], p[i + Horizon1].v["open"])
           /\ i + Horizon5 <= Len(p) =>
                o[i].v["close_5"] =
                  ChangeFrom(p[i].v["close"], p[i + Horizon5].v["close"])

(***************************************************************************)
(* The rows that features.dropna removes (SpecFeatures).                   *)
(***************************************************************************)
\* every row of symbol s has all its prices and its volume
CompleteRows(p, s) ==
  \A r \in Range(RowsOf(p.rows, s)) : \A c \in DOMAIN r.v : ~isnull(r.v[c])

IsZero(a) == a = Whole(0)

\* a ratio of row i of the symbol's rows p is 0/0: the volume of the row and
\* of the previous one, the close of the row and of the fifth before, or the
\* open and the close of the row are zero
ZeroOverZero(p, i) ==
  \/ /\ i > VolumeLag
     /\ IsZero(p[i].v["volume"])
     /\ IsZero(p[i - VolumeLag].v["volume"])
  \/ /\ i > MomentumLag
     /\ IsZero(p[i].v["close"])
     /\ IsZero(p[i - MomentumLag].v["close"])
  \/ IsZero(p[i].v["open"]) /\ IsZero(p[i].v["close"])

\* C12 as stated: after features.dropna the table has no missing value, its
\* keys are keys of prices, and of a symbol whose price rows are all complete
\* exactly the first 5 rows are removed and every later row is kept
C12_DropsExactlyFirstFive ==
  "features" \in bound[1] =>
    /\ NullRows(features[1]) = {}
    /\ Keys(features[1].rows) \subseteq Keys(prices[1].rows)
    /\ \A s \in Symbols :
         CompleteRows(prices[1], s) =>
           LET p == RowsOf(prices[1].rows, s)
           IN \A i \in DOMAIN p :
                Key(p[i]) \in Keys(features[1].rows) <=> i > MomentumLag

\* C12 amended: after features.dropna the table has no missing value, its
\* keys are keys of prices, and of a symbol whose price rows are all complete
\* the rows removed are exactly the first 5 and every later row one of whose
\* ratios is 0/0; the rows kept hold the values computed for them
C12_DropsFirstFiveAndZeroOverZero ==
  "features" \in bound[1] =>
    /\ NullRows(features[1]) = {}
    /\ Keys(features[1].rows) \subseteq Keys(prices[1].rows)
    /\ Range(features[1].rows) \subseteq Range(FeatureColumns(prices[1]).rows)
    /\ \A s \in Symbols :
         CompleteRows(prices[1], s) =>
           LET p == RowsOf(prices[1].rows, s)
           IN \A i \in DOMAIN p :
                Key(p[i]) \in Keys(features[1].rows)
                  <=> (i > MomentumLag /\ ~ZeroOverZero(p, i))

\* C12 witness: a symbol with complete price rows and more than five of
\* them, one row after the fifth removed for a 0/0 ratio and one kept
C12_Witness ==
  /\ "features" \in bound[1]
  /\ \E s \in Symbols :
       /\ CompleteRows(prices[1], s)
       /\ LET p == RowsOf(prices[1].rows, s)
          IN /\ \E i \in DOMAIN p :
                  /\ i > MomentumLag
                  /\ ZeroOverZero(p, i)
                  /\ Key(p[i]) \notin Keys(features[1].rows)
             /\ \E i \in DOMAIN p :
                  /\ i > MomentumLag
                  /\ Key(p[i]) \in Keys(features[1].rows)

(***************************************************************************)
(* The alignment and the tables it reads (SpecAlign).                      *)
(***************************************************************************)
\* C13: no step from the first alignment on changes features or outcomes,
\* and the alignment on open_1 that follows the alignment on close_1 binds X
\* and y to what the alignment on open_1 gives on the tables as they were
\* before it
C13_AlignmentLeavesTables ==
  [][/\ features' = features
     /\ outcomes' = outcomes
     /\ pc'[1] = "predict" =>
          /\ X'[1] = AlignX(features[1], outcomes[1], "open_1")
          /\ y'[1] = AlignY(features[1], outcomes[1], "open_1")]_vars

\* C13 witness: both alignments have run, the alignment on close_1 had left
\* out rows of features and the two alignments do not keep the same rows
C13_Witness ==
  /\ pc[1] = "predict"
  /\ X[1].rows # << >>
  /\ AlignX(features[1], outcomes[1], "close_1").rows
       \notin {X[1].rows, features[1].rows, << >>}

(***************************************************************************)
(* The globals at the calls of the model (SpecAnyOrder).                   *)
(***************************************************************************)
\* X and y are what the alignment gives on the current features and outcomes
FromCurrentTables(k) ==
  \E col \in {"close_1", "open_1"} :
    /\ X[k] = AlignX(features[k], outcomes[k], col)
    /\ y[k] = AlignY(features[k], outcomes[k], col)

\* the fitted model was fitted on the current X and y
FittedOnX(k) == model[k].fitted => (model[k].X = X[k] /\ model[k].y = y[k])

Consistent(k) == FromCurrentTables(k) /\ FittedOnX(k)

\* a step of a cell that calls model.fit, model.score or model.predict
Calls(k) == LinearCell(k) \/ ForestCell(k) \/ PredictCell(k)

\* C14: the globals are consistent at every call of the model when the cells
\* run in document order, and only then: a call of model.fit, model.score or
\* model.predict with an X and y that are not the alignment of the current
\* features and outcomes, or with a model fitted on another X, happens only
\* after the user has selected a cell out of document order (every step
\* either follows such a selection or, if it is a call, leaves the globals
\* consistent)
C14_InconsistentOnlyOutOfOrder ==
  [][selected[1] > 0 \/ (Calls(1) => Consistent(1)')]_vars

\* C14 witness: the cells were not run in document order and the prediction
\* cell has ended without an exception with a model fitted on another X
\* than the one it predicted on
C14_Witness ==
  /\ selected[1] > 0
  /\ pc[1] = "done"
  /\ err[1] = "none"
  /\ model[1].fitted
  /\ model[1].X # X[1]
  /\ Index(pred[1]) = Index(X[1])

====
